---- MODULE Spec2Model ----
(***************************************************************************)
(* Model of src/src/NestedFormBuilderDemo.tsx: the schema tree, the        *)
(* ordering utility, default extraction, value rebuild, and the            *)
(* conditional-required rule with per-field validation.                    *)
(*                                                                         *)
(* JavaScript values are modelled as records tagged by their type:         *)
(*   [t |-> "undefined"], [t |-> "null"],                                  *)
(*   [t |-> "string", s |-> pieces]: the string as the sequence of its     *)
(*       pieces, each one whitespace character or a run of other ones,     *)
(*   [t |-> "boolean", b |-> TRUE or FALSE], [t |-> "number", n |-> int],  *)
(*   [t |-> "object", o |-> props]: the own properties, a sequence of      *)
(*       <<key, value>> pairs in the order the properties were created.    *)
(* A property that holds undefined IS an own property: it is a pair of o   *)
(* whose value is Undefined, and is distinct from a missing pair.          *)
(***************************************************************************)
EXTENDS Integers, Sequences, FiniteSets, TLC

\* ------------------------------------------------------------------ bounds

\* Greatest nesting depth of the schemas the tree specification draws.
MaxDepth == 2
\* Greatest number of entries inserted into the mapping that is sorted.
MaxEntries == 3

\* ------------------------------------------------------------ JS values

Undefined == [t |-> "undefined"]
Null == [t |-> "null"]
Str(chars) == [t |-> "string", s |-> chars]
Bool(x) == [t |-> "boolean", b |-> x]
Num(x) == [t |-> "number", n |-> x]
Object(props) == [t |-> "object", o |-> props]
EmptyObject == Object(<<>>)
EmptyString == Str(<<>>)

\* v === undefined || v === null
Nullish(v) == v.t \in {"undefined", "null"}

\* a ?? d
Coalesce(a, d) == IF Nullish(a) THEN d ELSE a

\* ToBoolean: the test of `x ? .. : ..`, `if (x)`, `!x` and `!!x`.
Truthy(v) ==
  CASE v.t = "undefined" -> FALSE
    [] v.t = "null" -> FALSE
    [] v.t = "string" -> v.s # <<>>
    [] v.t = "boolean" -> v.b
    [] v.t = "number" -> v.n # 0
    [] OTHER -> TRUE

KeysOf(v) == {v.o[i][1] : i \in 1..Len(v.o)}

HasOwn(v, k) == v.t = "object" /\ k \in KeysOf(v)

\* A TypeError raised by the evaluation, carried as a value.
TypeError == [t |-> "TypeError"]

\* v[k], v.k for a v that is neither undefined nor null (a block, a field spec, an
\* entry of a mapping): the own property k, undefined when there is none.
Get(v, k) ==
  IF HasOwn(v, k)
    THEN v.o[CHOOSE i \in 1..Len(v.o) : v.o[i][1] = k][2]
    ELSE Undefined

\* v?.[k], v?.k
OptGet(v, k) ==
  IF v.t = "TypeError" THEN TypeError
  ELSE IF Nullish(v) THEN Undefined ELSE Get(v, k)

\* obj[k] = x, and one property of an object literal or spread: an existing property
\* keeps its place, a new one is created last.
ObjSet(v, k, x) ==
  IF HasOwn(v, k)
    THEN Object([i \in 1..Len(v.o) |-> IF v.o[i][1] = k THEN <<k, x>> ELSE v.o[i]])
    ELSE Object(Append(v.o, <<k, x>>))

\* The keys that are array indices ("integer-like" keys), with their numeric value
\* (CanonicalNumericIndexString): the decimal numerals without a leading zero.
IndexValue ==
  [k \in {"0", "1", "2", "10"} |->
     CASE k = "0" -> 0 [] k = "1" -> 1 [] k = "2" -> 2 [] OTHER -> 10]

IsArrayIndex(k) == k \in DOMAIN IndexValue

\* OrdinaryOwnPropertyKeys precedes: whether key j is enumerated before key k, for
\* two properties at positions pj and pk of creation. Array indices come first, in
\* ascending numeric order; the other string keys follow in order of creation.
EnumeratedBefore(j, pj, k, pk) ==
  CASE IsArrayIndex(j) /\ IsArrayIndex(k) -> IndexValue[j] < IndexValue[k]
    [] IsArrayIndex(j) -> TRUE
    [] IsArrayIndex(k) -> FALSE
    [] OTHER -> pj < pk

\* Object.entries(v): the [key, value] pairs in OrdinaryOwnPropertyKeys order.
ObjectEntries(v) ==
  LET n == Len(v.o)
      Rank(i) == 1 + Cardinality({j \in 1..n : j # i /\
                                    EnumeratedBefore(v.o[j][1], j, v.o[i][1], i)})
  IN [r \in 1..n |-> v.o[CHOOSE i \in 1..n : Rank(i) = r]]

\* Object.fromEntries(entries): the properties created in the order of the entries.
RECURSIVE SetAll(_, _)
SetAll(v, entries) ==
  IF entries = <<>> THEN v
  ELSE SetAll(ObjSet(v, Head(entries)[1], Head(entries)[2]), Tail(entries))

ObjectFromEntries(entries) == SetAll(EmptyObject, entries)

\* ------------------------------------------------------------ strings

Whitespace == {" "}

\* String.prototype.trim
RECURSIVE TrimStart(_)
TrimStart(chars) ==
  IF chars # <<>> /\ Head(chars) \in Whitespace THEN TrimStart(Tail(chars)) ELSE chars

RECURSIVE TrimEnd(_)
TrimEnd(chars) ==
  IF chars # <<>> /\ chars[Len(chars)] \in Whitespace
    THEN TrimEnd(SubSeq(chars, 1, Len(chars) - 1))
    ELSE chars

Trim(chars) == TrimEnd(TrimStart(chars))

\* String(v) for the values a field can hold.
ToStringChars(v) ==
  CASE v.t = "string" -> v.s
    [] v.t = "boolean" -> IF v.b THEN <<"true">> ELSE <<"false">>
    [] v.t = "undefined" -> <<"undefined">>
    [] v.t = "null" -> <<"null">>
    [] OTHER -> <<"[object Object]">>

\* ------------------------------------------------------------ ordering utility

\* (a.order ?? 0) - (b.order ?? 0)
CompareOrder(a, b) == Coalesce(Get(a, "order"), Num(0)).n - Coalesce(Get(b, "order"), Num(0)).n

\* Array.prototype.sort with a comparator: a stable sort (ECMAScript 2019), here by
\* insertion: each element goes after every element that does not compare greater.
\* Mutant of InsertSorted: an element goes before the elements it ties with, which
\* is a sort that is not stable.
RECURSIVE InsertSortedUnstable(_, _)
InsertSortedUnstable(done, e) ==
  IF done = <<>> THEN <<e>>
  ELSE IF CompareOrder(Head(done)[2], e[2]) < 0
    THEN <<Head(done)>> \o InsertSortedUnstable(Tail(done), e)
    ELSE <<e>> \o done

RECURSIVE InsertSorted(_, _)
InsertSorted(done, e) ==
  IF done = <<>> THEN <<e>>
  ELSE IF CompareOrder(Head(done)[2], e[2]) <= 0
    THEN <<Head(done)>> \o InsertSorted(Tail(done), e)
    ELSE <<e>> \o done

RECURSIVE ArraySort(_)
ArraySort(entries) ==
  IF entries = <<>> THEN <<>>
  ELSE InsertSorted(ArraySort(SubSeq(entries, 1, Len(entries) - 1)), entries[Len(entries)])

sortEntriesByOrder(obj) ==
  IF ~Truthy(obj) THEN <<>> ELSE ArraySort(ObjectEntries(obj))

\* ------------------------------------------------------------ the transforms

\* { ...v }: the own properties, copied in the order they are enumerated
Spread(v) == ObjectFromEntries(ObjectEntries(v))

\* fSpec.value ?? ""
DefaultOf(fSpec) == Coalesce(Get(fSpec, "value"), EmptyString)

\* Mutant of extractDefaultValuesFromSchema: the nested blocks are not walked.
extractDefaultsOfTopLevel(sch) ==
  LET entries == ObjectEntries(sch)
      FieldDefaults(fields) ==
        LET fes == ObjectEntries(fields)
        IN SetAll(EmptyObject, [i \in 1..Len(fes) |-> <<fes[i][1], DefaultOf(fes[i][2])>>])
      BlockDefaults(block) ==
        IF Truthy(Get(block, "fields"))
          THEN ObjSet(EmptyObject, "fields", FieldDefaults(Get(block, "fields")))
          ELSE EmptyObject
  IN SetAll(EmptyObject,
            [i \in 1..Len(entries) |-> <<entries[i][1], BlockDefaults(entries[i][2])>>])

RECURSIVE extractDefaultValuesFromSchema(_)
extractDefaultValuesFromSchema(sch) ==
  LET entries == ObjectEntries(sch)
      FieldDefaults(fields) ==
        LET fes == ObjectEntries(fields)
        IN SetAll(EmptyObject, [i \in 1..Len(fes) |-> <<fes[i][1], DefaultOf(fes[i][2])>>])
      BlockDefaults(block) ==
        LET r0 == EmptyObject
            r1 == IF Truthy(Get(block, "fields"))
                    THEN ObjSet(r0, "fields", FieldDefaults(Get(block, "fields")))
                    ELSE r0
        IN IF Truthy(Get(block, "child"))
             THEN ObjSet(r1, "child", extractDefaultValuesFromSchema(Get(block, "child")))
             ELSE r1
  IN SetAll(EmptyObject,
            [i \in 1..Len(entries) |-> <<entries[i][1], BlockDefaults(entries[i][2])>>])

\* Mutant of ValuesForBlock: values[blockKey] ?? {}, which raises a TypeError when
\* values is undefined or null.
ValuesForBlockUnguarded(vals, blockKey) ==
  IF Nullish(vals) THEN TypeError ELSE Coalesce(Get(vals, blockKey), EmptyObject)

\* values?.[blockKey] ?? {}
ValuesForBlock(vals, blockKey) == Coalesce(OptGet(vals, blockKey), EmptyObject)

\* vForBlock?.fields?.[fk] ?? ""
RebuiltValue(vForBlock, fk) ==
  Coalesce(OptGet(OptGet(vForBlock, "fields"), fk), EmptyString)

\* Whether a TypeError was raised while the properties of v were computed.
RECURSIVE Raised(_)
Raised(v) ==
  \/ v.t = "TypeError"
  \/ v.t = "object" /\ \E i \in 1..Len(v.o) : Raised(v.o[i][2])

RECURSIVE rebuildSchemaWithValues(_, _)
rebuildSchemaWithValues(sch, vals) ==
  LET entries == ObjectEntries(sch)
      RebuiltFields(fields, vForBlock) ==
        LET fes == ObjectEntries(fields)
        IN ObjectFromEntries(
             [i \in 1..Len(fes) |->
                <<fes[i][1],
                  ObjSet(Spread(fes[i][2]), "value", RebuiltValue(vForBlock, fes[i][1]))>>])
      RebuiltBlock(blockKey, block) ==
        LET vForBlock == ValuesForBlock(vals, blockKey)
            withFields ==
              ObjSet(Spread(block), "fields",
                     IF Truthy(Get(block, "fields"))
                       THEN RebuiltFields(Get(block, "fields"), vForBlock)
                       ELSE Undefined)
        IN ObjSet(withFields, "child",
                  IF Truthy(Get(block, "child"))
                    THEN rebuildSchemaWithValues(Get(block, "child"),
                                                 OptGet(vForBlock, "child"))
                    ELSE Undefined)
      out == SetAll(EmptyObject,
                    [i \in 1..Len(entries) |->
                       <<entries[i][1], RebuiltBlock(entries[i][1], entries[i][2])>>])
  IN IF Raised(out) THEN TypeError ELSE out

\* ------------------------------------------------------------ paths into trees

\* The value at a path of property keys, undefined when the path leaves the tree.
RECURSIVE GetIn(_, _)
GetIn(v, path) ==
  IF path = <<>> THEN v ELSE GetIn(OptGet(v, Head(path)), Tail(path))

\* The tree with the value at a path replaced, the objects on the way created.
RECURSIVE SetIn(_, _, _)
SetIn(v, path, x) ==
  LET base == IF v.t = "object" THEN v ELSE EmptyObject
  IN IF Len(path) = 1
       THEN ObjSet(base, path[1], x)
       ELSE ObjSet(base, path[1], SetIn(Get(base, path[1]), Tail(path), x))

\* delete v[k]
Delete(v, k) == Object(SelectSeq(v.o, LAMBDA p : p[1] # k))

\* The tree with the property at a path deleted.
RECURSIVE DeleteIn(_, _)
DeleteIn(v, path) ==
  IF v.t # "object" THEN v
  ELSE IF Len(path) = 1 THEN Delete(v, path[1])
  ELSE IF HasOwn(v, path[1])
    THEN ObjSet(v, path[1], DeleteIn(Get(v, path[1]), Tail(path)))
    ELSE v

\* The paths of the blocks of a schema: blockKey, blockKey.child.blockKey, ...
RECURSIVE BlockPaths(_)
BlockPaths(sch) ==
  UNION {
    {<<k>>} \cup
      (IF Truthy(Get(Get(sch, k), "child"))
         THEN {<<k, "child">> \o p : p \in BlockPaths(Get(Get(sch, k), "child"))}
         ELSE {})
    : k \in KeysOf(sch)}

\* The keys of the fields of the block at a path.
FieldKeysAt(sch, bp) ==
  LET fields == Get(GetIn(sch, bp), "fields")
  IN IF Truthy(fields) THEN KeysOf(fields) ELSE {}

\* The paths of the fields of a schema: <block path>.fields.<field key>
FieldPaths(sch) ==
  UNION {{bp \o <<"fields", fk>> : fk \in FieldKeysAt(sch, bp)} : bp \in BlockPaths(sch)}

\* ------------------------------------- conditional requirement and validation

\* The values of FieldSpec.type.
StringType == Str(<<"string">>)
BooleanType == Str(<<"boolean">>)

\* Whether the field is of type boolean.
IsBooleanField(fSpec) == Get(fSpec, "type") = BooleanType

\* Mutant of useAnyFieldHasValue: it watches the fields of the top-level block the
\* block is nested in (the block key in the place of the block path).
useAnyFieldHasValueOfTopBlock(vals, blockPath, fieldKeys) ==
  LET watchValues == GetIn(vals, <<blockPath[1], "fields">>)
  IN IF ~Truthy(watchValues) THEN FALSE
     ELSE \E i \in 1..Len(fieldKeys) :
            LET v == OptGet(watchValues, fieldKeys[i])
            IN IF Nullish(v) THEN FALSE
               ELSE IF v.t = "string" THEN Trim(v.s) # <<>>
               ELSE TRUE

\* useAnyFieldHasValue(blockPath, fieldKeys), on the form's current values: useWatch
\* returns the value at `${blockPath}.fields`. No field of the model holds an array,
\* the one case the Array.isArray line decides. The fragment that follows the
\* function in the source (lines 179-188) tests String(v).trim() === "" instead; the
\* two tests agree on undefined, null, every string and every boolean.
useAnyFieldHasValue(vals, blockPath, fieldKeys) ==
  LET watchValues == GetIn(vals, blockPath \o <<"fields">>)
  IN IF ~Truthy(watchValues) THEN FALSE
     ELSE \E i \in 1..Len(fieldKeys) :
            LET v == OptGet(watchValues, fieldKeys[i])
            IN IF Nullish(v) THEN FALSE
               ELSE IF v.t = "string" THEN Trim(v.s) # <<>>
               ELSE TRUE

\* Block: fieldKeys, the keys of sortEntriesByOrder(block.fields)
FieldKeysOfBlock(block) ==
  LET fieldEntries == sortEntriesByOrder(Get(block, "fields"))
  IN [i \in 1..Len(fieldEntries) |-> fieldEntries[i][1]]

\* Mutant of DisableRequired: the requirement is disabled once a field is filled in.
DisableRequiredWhenFilled(sch, vals, blockPath) ==
  LET block == GetIn(sch, blockPath)
  IN Truthy(Get(block, "required")) /\
     useAnyFieldHasValue(vals, blockPath, FieldKeysOfBlock(block))

\* Mutant of DisableRequired: block.required is not looked at.
DisableRequiredOfAnyBlock(sch, vals, blockPath) ==
  ~useAnyFieldHasValue(vals, blockPath, FieldKeysOfBlock(GetIn(sch, blockPath)))

\* Block: disableRequired = !!block.required && !anyFieldHasValue
DisableRequired(sch, vals, blockPath) ==
  LET block == GetIn(sch, blockPath)
  IN Truthy(Get(block, "required")) /\
     ~useAnyFieldHasValue(vals, blockPath, FieldKeysOfBlock(block))

\* What the validation of a field gives: true, or the message.
Valid == "valid"
Required == "Required"

\* Mutant of FieldRowValidate: a required switch has to be switched on.
FieldRowValidateSwitch(type, required, disabledRequired, v) ==
  IF Truthy(required) /\ ~disabledRequired
    THEN LET isEmpty == Nullish(v) \/ Trim(ToStringChars(v)) = <<>> \/ v = Bool(FALSE)
         IN IF ~isEmpty THEN Valid ELSE Required
    ELSE Valid

\* FieldRow: a boolean field is rendered with a Controller that has no rules; any
\* other field with the rule `validate`.
FieldRowValidate(type, required, disabledRequired, v) ==
  IF type = BooleanType THEN Valid
  ELSE IF Truthy(required) /\ ~disabledRequired
    THEN LET isEmpty == Nullish(v) \/ Trim(ToStringChars(v)) = <<>>
         IN IF ~isEmpty THEN Valid ELSE Required
    ELSE Valid

\* The path of the block that owns the field at path fp.
BlockOf(fp) == SubSeq(fp, 1, Len(fp) - 2)

\* The validation of the field at path fp, as Block renders its FieldRow. Block is
\* rendered again whenever the watched values change, so the rule is given the
\* disableRequired of the current values.
ValidateAt(sch, vals, fp) ==
  LET fSpec == GetIn(sch, fp)
  IN FieldRowValidate(Get(fSpec, "type"), Get(fSpec, "required"),
                      DisableRequired(sch, vals, BlockOf(fp)), GetIn(vals, fp))

\* ------------------------------------------------------------------ state

VARIABLES
  schema,   \* the Schema handed to SchemaForm / to the transforms
  values,   \* the ValuesTree: the form's values, or the tree given to the rebuild
  rebuilt,  \* the result of the last rebuildSchemaWithValues, Undefined before it
  again,    \* the rebuild from the defaults extracted from `rebuilt`
  errors,   \* the paths of the fields that failed validation, when the last step
            \* was a submit
  edited,   \* the path of the field the last step edited, <<>> when it edited none
  obj,      \* the mapping handed to sortEntriesByOrder
  sorted,   \* the result of the last sortEntriesByOrder
  pc        \* what the last step was

vars == <<schema, values, rebuilt, again, errors, edited, obj, sorted, pc>>

\* ------------------------------------------- specification of the ordering

\* Keys of the sorted mapping: plain names and array indices.
SortKeys == {"a", "b", "2", "10"}

\* Entries of the sorted mapping: `order` missing, negative, zero, positive.
SortEntrySet ==
  {EmptyObject} \cup {Object(<< <<"order", Num(n)>> >>) : n \in {-1, 0, 1}}

InitSort ==
  /\ obj = Undefined
  /\ sorted = <<>>
  /\ pc = "start"
  /\ schema = EmptyObject
  /\ values = EmptyObject
  /\ rebuilt = Undefined
  /\ again = Undefined
  /\ errors = {}
  /\ edited = <<>>

\* const obj = {}
CreateMapping ==
  /\ obj = Undefined
  /\ obj' = EmptyObject
  /\ pc' = "built"
  /\ UNCHANGED <<schema, values, rebuilt, again, errors, sorted, edited>>

\* obj[k] = e, for a key the mapping does not hold yet
InsertEntry(k, e) ==
  /\ obj.t = "object"
  /\ Len(obj.o) < MaxEntries
  /\ ~HasOwn(obj, k)
  /\ obj' = ObjSet(obj, k, e)
  /\ pc' = "built"
  /\ UNCHANGED <<schema, values, rebuilt, again, errors, sorted, edited>>

\* sorted = sortEntriesByOrder(obj)
CallSort ==
  /\ pc # "sorted"
  /\ sorted' = sortEntriesByOrder(obj)
  /\ pc' = "sorted"
  /\ UNCHANGED <<schema, values, rebuilt, again, errors, obj, edited>>

NextSort ==
  \/ CreateMapping
  \/ \E k \in SortKeys, e \in SortEntrySet : InsertEntry(k, e)
  \/ CallSort

SpecSort == InitSort /\ [][NextSort]_vars

\* ------------------------------------------------------------ schema literals

\* In a literal below, a property that is left out.
Absent == [t |-> "absent"]

\* An object literal: the properties in the order written, without the ones left out.
Literal(props) == Object(SelectSeq(props, LAMBDA p : p[2] # Absent))

\* A FieldSpec literal, written as the fields of exampleSchema are: key, label,
\* required, order, value, type.
FieldSpec(key, required, order, value, type) ==
  Literal(<< <<"key", Str(<<key>>)>>, <<"label", Str(<<key, " ", "label">>)>>,
             <<"required", required>>, <<"order", order>>, <<"value", value>>,
             <<"type", type>> >>)

\* A BlockSpec literal, written as the blocks of exampleSchema are: name, label,
\* order, required, child, fields.
BlockSpec(name, label, order, required, child, fields) ==
  Literal(<< <<"name", Str(<<name>>)>>, <<"label", label>>, <<"order", order>>,
             <<"required", required>>, <<"child", child>>, <<"fields", fields>> >>)


\* ------------------------------------------ specification of the transforms

\* The label, order, required and fields of the blocks drawn: a block without
\* fields, one with no field, fields with and without a declared default, of both
\* types, and metadata present or left out.
TreeBlockVariants ==
  { <<Absent, Absent, Absent, Absent>>,
    <<Str(<<"Empty">>), Num(1), Bool(TRUE), EmptyObject>>,
    <<Str(<<"Suppression", " ", "type">>), Num(0), Bool(TRUE),
      Literal(<< <<"f", FieldSpec("f", Bool(TRUE), Num(0), Str(<<"S-123">>), StringType)>> >>)>>,
    <<Absent, Num(2), Bool(FALSE),
      Literal(<< <<"f", FieldSpec("f", Bool(TRUE), Num(1), Absent, StringType)>>,
                 <<"g", FieldSpec("g", Absent, Num(0), Bool(TRUE), BooleanType)>> >>)>>,
    <<Str(<<"Rule">>), Absent, Absent,
      Literal(<< <<"f", FieldSpec("f", Bool(FALSE), Absent, Null, StringType)>>,
                 <<"g", FieldSpec("g", Bool(TRUE), Num(1), Str(<<" ">>), StringType)>> >>)>>,
    <<Str(<<"Flag">>), Num(0), Absent,
      Literal(<< <<"g", FieldSpec("g", Bool(TRUE), Num(0), Bool(FALSE), BooleanType)>> >>)>> }

\* The variants a nested block is drawn from: those that declare `required`.
NestedBlockVariants == {v \in TreeBlockVariants : v[3] # Absent}

\* The blocks named `name` that nest at most d levels, drawn from the variants; a
\* nested block has the key n.
RECURSIVE TreeBlocks(_, _, _)
TreeBlocks(d, name, variants) ==
  LET children ==
        IF d <= 1 THEN {Absent}
        ELSE {Absent, EmptyObject} \cup
             {Literal(<< <<"n", c>> >>) : c \in TreeBlocks(d - 1, "n", NestedBlockVariants)}
  IN {BlockSpec(name, v[1], v[2], v[3], c, v[4]) : v \in variants, c \in children}

\* A second block of the top level.
SiblingBlock ==
  BlockSpec("b", Str(<<"Sibling">>), Num(0), Bool(TRUE), Absent,
            Literal(<< <<"f", FieldSpec("f", Bool(TRUE), Num(0), Str(<<"C-456">>), StringType)>> >>))

TreeSchemas ==
  {EmptyObject} \cup
  {Literal(<< <<"a", blk>>, <<"b", sib>> >>) :
     blk \in TreeBlocks(MaxDepth, "a", TreeBlockVariants), sib \in {Absent, SiblingBlock}}

\* What an entry of the values tree is set to.
EntryValues == {Str(<<"a">>), EmptyString, Bool(TRUE), Null, Undefined}

\* Entries the schema has no field or block for.
ExtraPaths == {<<"a", "fields", "x">>, <<"z", "fields", "f">>}

\* The paths of the parts of a values tree: its blocks, their `fields` and `child`.
PartPaths(sch) ==
  BlockPaths(sch) \cup {bp \o <<part>> : bp \in BlockPaths(sch), part \in {"fields", "child"}}

InitTree ==
  /\ schema \in TreeSchemas
  /\ values = EmptyObject
  /\ rebuilt = Undefined
  /\ again = Undefined
  /\ pc = "empty"
  /\ errors = {}
  /\ edited = <<>>
  /\ obj = Undefined
  /\ sorted = <<>>

\* values = extractDefaultValuesFromSchema(schema)
TakeDefaults ==
  /\ pc = "empty"
  /\ values' = extractDefaultValuesFromSchema(schema)
  /\ pc' = "defaults"
  /\ UNCHANGED <<schema, rebuilt, again, errors, obj, sorted, edited>>

\* One entry of the values tree is set: of a field of the schema, or an extra one.
SetEntry(path, x) ==
  /\ pc \in {"empty", "defaults"}
  /\ values' = SetIn(values, path, x)
  /\ pc' = "edited"
  /\ UNCHANGED <<schema, rebuilt, again, errors, obj, sorted, edited>>

\* One part of the values tree is set to null.
NullPart(path) ==
  /\ pc \in {"empty", "defaults"}
  /\ values' = SetIn(values, path, Null)
  /\ pc' = "edited"
  /\ UNCHANGED <<schema, rebuilt, again, errors, obj, sorted, edited>>

\* One part or entry of the values tree is deleted.
DeletePart(path) ==
  /\ pc = "defaults"
  /\ values' = DeleteIn(values, path)
  /\ values' # values
  /\ pc' = "edited"
  /\ UNCHANGED <<schema, rebuilt, again, errors, obj, sorted, edited>>

\* rebuilt = rebuildSchemaWithValues(schema, values)
Rebuild ==
  /\ pc \in {"empty", "defaults", "edited"}
  /\ rebuilt' = rebuildSchemaWithValues(schema, values)
  /\ pc' = "rebuilt"
  /\ UNCHANGED <<schema, values, again, errors, obj, sorted, edited>>

\* again = rebuildSchemaWithValues(schema, extractDefaultValuesFromSchema(rebuilt))
RebuildAgain ==
  /\ pc = "rebuilt"
  /\ again' = rebuildSchemaWithValues(schema, extractDefaultValuesFromSchema(rebuilt))
  /\ pc' = "again"
  /\ UNCHANGED <<schema, values, rebuilt, errors, obj, sorted, edited>>

NextTree ==
  \/ TakeDefaults
  \/ \E path \in FieldPaths(schema) \cup ExtraPaths, x \in EntryValues : SetEntry(path, x)
  \/ \E path \in PartPaths(schema) : NullPart(path)
  \/ \E path \in PartPaths(schema) \cup FieldPaths(schema) : DeletePart(path)
  \/ Rebuild
  \/ RebuildAgain

SpecTree == InitTree /\ [][NextTree]_vars

\* ------------------------------------------------ specification of the form

\* The schemas of the form: a required, not required or unmarked block `a` with two
\* fields and a nested block `n`, and a required sibling block `b`.
FormSchemas ==
  { Literal(<<
      <<"a", BlockSpec("a", Str(<<"Suppression", " ", "type">>), Num(0), ra,
               Literal(<< <<"n", BlockSpec("n", Absent, Num(0), rn, Absent,
                  Literal(<< <<"f", FieldSpec("f", Bool(TRUE), Num(0),
                                              Str(<<"R-789">>), StringType)>> >>))>> >>),
               Literal(<< <<"f", FieldSpec("f", rf, Num(1), EmptyString, StringType)>>,
                          <<"g", g>> >>))>>,
      <<"b", BlockSpec("b", Str(<<"Sibling">>), Num(1), Bool(TRUE), Absent,
               Literal(<< <<"f", FieldSpec("f", Bool(TRUE), Absent,
                                           EmptyString, StringType)>> >>))>> >>) :
    ra \in {Absent, Bool(FALSE), Bool(TRUE)},
    rn \in {Absent, Bool(TRUE)},
    rf \in {Bool(TRUE), Bool(FALSE)},
    g \in { FieldSpec("g", Bool(TRUE), Num(0), EmptyString, StringType),
            FieldSpec("g", Bool(TRUE), Num(0), Bool(FALSE), BooleanType),
            FieldSpec("g", Absent, Num(0), Bool(TRUE), BooleanType) } }

\* What is typed into a text field.
FormStrings == {<<>>, <<" ">>, <<" ", "a", " ">>}

InitForm ==
  /\ schema \in FormSchemas
  /\ values = extractDefaultValuesFromSchema(schema)
  /\ rebuilt = Undefined
  /\ again = Undefined
  /\ errors = {}
  /\ edited = <<>>
  /\ pc = "rendered"
  /\ obj = Undefined
  /\ sorted = <<>>

\* TextField: field.onChange with the text typed
ChangeText(fp, chars) ==
  /\ ~IsBooleanField(GetIn(schema, fp))
  /\ values' = SetIn(values, fp, Str(chars))
  /\ edited' = fp
  /\ errors' = {}
  /\ rebuilt' = Undefined
  /\ pc' = "changed"
  /\ UNCHANGED <<schema, again, obj, sorted>>

\* Switch: field.onChange(e.target.checked)
Toggle(fp, checked) ==
  /\ IsBooleanField(GetIn(schema, fp))
  /\ values' = SetIn(values, fp, Bool(checked))
  /\ edited' = fp
  /\ errors' = {}
  /\ rebuilt' = Undefined
  /\ pc' = "changed"
  /\ UNCHANGED <<schema, again, obj, sorted>>

\* Reset: methods.reset(defaultValues)
Reset ==
  /\ values' = extractDefaultValuesFromSchema(schema)
  /\ edited' = <<>>
  /\ errors' = {}
  /\ rebuilt' = Undefined
  /\ pc' = "reset"
  /\ UNCHANGED <<schema, again, obj, sorted>>

\* Submit: handleSubmit validates every field and calls onSubmit when none fails.
Submit ==
  /\ errors' = {fp \in FieldPaths(schema) : ValidateAt(schema, values, fp) = Required}
  /\ rebuilt' = IF errors' = {} THEN rebuildSchemaWithValues(schema, values) ELSE Undefined
  /\ edited' = <<>>
  /\ pc' = "submitted"
  /\ UNCHANGED <<schema, values, again, obj, sorted>>

NextForm ==
  \/ \E fp \in FieldPaths(schema), chars \in FormStrings : ChangeText(fp, chars)
  \/ \E fp \in FieldPaths(schema), checked \in BOOLEAN : Toggle(fp, checked)
  \/ Reset
  \/ Submit

SpecForm == InitForm /\ [][NextForm]_vars

\* ---------------------------------------------------------- claims on the form

\* A non-empty value: a boolean always, a string that is not empty once trimmed,
\* anything else that is neither undefined nor null.
HoldsValue(v) ==
  CASE v.t = "boolean" -> TRUE
    [] v.t = "string" -> Trim(v.s) # <<>>
    [] OTHER -> ~Nullish(v)

\* An empty value: undefined, null, or empty once turned into a string and trimmed.
IsEmptyValue(v) == Nullish(v) \/ Trim(ToStringChars(v)) = <<>>

\* The paths of the fields of the block at path bp.
FieldsOfBlock(bp) == {bp \o <<"fields", fk>> : fk \in FieldKeysAt(schema, bp)}

\* At least one field of the block at bp holds a non-empty value.
BlockFilled(bp) == \E fp \in FieldsOfBlock(bp) : HoldsValue(GetIn(values, fp))

\* The blocks declared required = true, and the blocks whose required is falsy.
RequiredBlocks ==
  {bp \in BlockPaths(schema) : Get(GetIn(schema, bp), "required") = Bool(TRUE)}
UnrequiredBlocks ==
  {bp \in BlockPaths(schema) : Get(GetIn(schema, bp), "required") \in {Undefined, Bool(FALSE)}}

\* A field that is not boolean, is declared required = true and holds an empty value.
EmptyRequiredField(fp) ==
  /\ ~IsBooleanField(GetIn(schema, fp))
  /\ Get(GetIn(schema, fp), "required") = Bool(TRUE)
  /\ IsEmptyValue(GetIn(values, fp))

\* C1 as stated: after a single-field edit, for a block declared required = true,
\* while no field of the block
\* holds a non-empty value every empty non-boolean required field of it fails with
\* "Required"; once a field holds a non-empty value no empty field of it fails.
C1_AsStated ==
  pc = "changed" =>
    \A bp \in RequiredBlocks :
      /\ ~BlockFilled(bp) =>
           \A fp \in FieldsOfBlock(bp) :
             EmptyRequiredField(fp) => ValidateAt(schema, values, fp) = Required
      /\ BlockFilled(bp) =>
           \A fp \in FieldsOfBlock(bp) :
             IsEmptyValue(GetIn(values, fp)) => ValidateAt(schema, values, fp) # Required

\* C1 amended: for a block declared required = true, while no field of the block
\* holds a non-empty value the requirement is disabled and no field of the block
\* fails; once a field holds a non-empty value the requirement is enforced, and every
\* empty non-boolean field declared required = true fails with "Required".
C1_RequiredOnceFilled ==
  \A bp \in RequiredBlocks :
    /\ ~BlockFilled(bp) =>
         /\ DisableRequired(schema, values, bp)
         /\ \A fp \in FieldsOfBlock(bp) : ValidateAt(schema, values, fp) = Valid
    /\ BlockFilled(bp) =>
         /\ ~DisableRequired(schema, values, bp)
         /\ \A fp \in FieldsOfBlock(bp) :
              EmptyRequiredField(fp) => ValidateAt(schema, values, fp) = Required

\* C1 witness: after an edit, the required block `a` has one field filled in and an
\* empty required field that fails, while the required block `b`, still entirely
\* empty, has an empty required field that passes.
C1_Witness ==
  /\ pc = "changed"
  /\ <<"a">> \in RequiredBlocks /\ BlockFilled(<<"a">>)
  /\ \E fp \in FieldsOfBlock(<<"a">>) :
       EmptyRequiredField(fp) /\ ValidateAt(schema, values, fp) = Required
  /\ <<"b">> \in RequiredBlocks /\ ~BlockFilled(<<"b">>)
  /\ EmptyRequiredField(<<"b", "fields", "f">>)
  /\ ValidateAt(schema, values, <<"b", "fields", "f">>) = Valid

\* C2 as stated: no field of a block whose required flag is false or absent ever
\* fails with "Required", whatever the values, a required empty field included.
C2_AsStated ==
  \A bp \in UnrequiredBlocks :
    \A fp \in FieldsOfBlock(bp) : ValidateAt(schema, values, fp) # Required

\* C2 amended: for a block whose required flag is false or absent the disabling of
\* the requirement is off whatever the values, so a field of the block fails with
\* "Required" exactly when it is not boolean, is declared required = true and holds
\* an empty value.
C2_UnrequiredBlockEnforcesFields ==
  \A bp \in UnrequiredBlocks :
    /\ ~DisableRequired(schema, values, bp)
    /\ \A fp \in FieldsOfBlock(bp) :
         ValidateAt(schema, values, fp) = Required <=> EmptyRequiredField(fp)

\* C2 witness: a submit found that in the unmarked nested block, entirely empty, the
\* required field fails, and that block `a`, not required, has a field that is
\* empty, not declared required, and passes.
C2_Witness ==
  /\ pc = "submitted"
  /\ <<"a", "child", "n">> \in UnrequiredBlocks
  /\ ~BlockFilled(<<"a", "child", "n">>)
  /\ <<"a", "child", "n", "fields", "f">> \in errors
  /\ <<"a">> \in UnrequiredBlocks
  /\ Get(GetIn(schema, <<"a", "fields", "f">>), "required") = Bool(FALSE)
  /\ IsEmptyValue(GetIn(values, <<"a", "fields", "f">>))
  /\ <<"a", "fields", "f">> \notin errors

\* C6: a boolean field never fails validation: in every state each boolean field
\* that holds a boolean passes, and the validation of a boolean field passes for
\* either boolean, either required flag (or none) and either state of disableRequired.
C6_BooleanNeverFails ==
  /\ \A fp \in FieldPaths(schema) :
       (IsBooleanField(GetIn(schema, fp)) /\ GetIn(values, fp).t = "boolean")
         => ValidateAt(schema, values, fp) = Valid
  /\ \A required \in {Undefined, Bool(FALSE), Bool(TRUE)}, disabled \in BOOLEAN, x \in BOOLEAN :
       FieldRowValidate(BooleanType, required, disabled, Bool(x)) = Valid

\* C6 witness: a submit of a form in which a boolean field declared required is
\* switched off, after it was switched, did not report that field.
C6_Witness ==
  /\ pc = "submitted"
  /\ IsBooleanField(GetIn(schema, <<"a", "fields", "g">>))
  /\ Get(GetIn(schema, <<"a", "fields", "g">>), "required") = Bool(TRUE)
  /\ GetIn(values, <<"a", "fields", "g">>) = Bool(FALSE)
  /\ <<"a">> \in RequiredBlocks
  /\ <<"a", "fields", "f">> \in errors
  /\ <<"a", "fields", "g">> \notin errors

\* C9: an edit of a field leaves the requirement state of every other block, and the
\* validation outcome of each field of every other block, as they were.
C9_OtherBlocksUnchanged ==
  [][\A fp \in FieldPaths(schema) :
       (pc' = "changed" /\ edited' = fp) =>
         \A bp \in BlockPaths(schema) \ {BlockOf(fp)} :
           /\ DisableRequired(schema, values', bp) = DisableRequired(schema, values, bp)
           /\ \A op \in FieldsOfBlock(bp) :
                ValidateAt(schema, values', op) = ValidateAt(schema, values, op)]_vars

\* C9 witness: a field of block `a` was just filled in, while its required child
\* block `n` and its required sibling `b` are entirely empty and have the
\* requirement disabled.
C9_Witness ==
  /\ pc = "changed"
  /\ edited = <<"a", "fields", "f">>
  /\ HoldsValue(GetIn(values, edited))
  /\ <<"a">> \in RequiredBlocks /\ ~DisableRequired(schema, values, <<"a">>)
  /\ <<"a", "child", "n">> \in RequiredBlocks
  /\ DisableRequired(schema, values, <<"a", "child", "n">>)
  /\ <<"b">> \in RequiredBlocks /\ DisableRequired(schema, values, <<"b">>)

\* ---------------------------------------------------- claims on the transforms

\* The schema with the value of every field replaced by its declared default, the
\* empty string standing in for a default that is undefined or null.
RECURSIVE WithDeclaredDefaults(_)
WithDeclaredDefaults(sch) ==
  LET OfFields(fields) ==
        Object([i \in 1..Len(fields.o) |->
                  <<fields.o[i][1],
                    ObjSet(fields.o[i][2], "value",
                           IF Nullish(Get(fields.o[i][2], "value"))
                             THEN EmptyString
                             ELSE Get(fields.o[i][2], "value"))>>])
      OfBlock(block) ==
        LET b1 == IF HasOwn(block, "fields")
                    THEN ObjSet(block, "fields", OfFields(Get(block, "fields")))
                    ELSE block
        IN IF HasOwn(block, "child")
             THEN ObjSet(b1, "child", WithDeclaredDefaults(Get(block, "child")))
             ELSE b1
  IN Object([i \in 1..Len(sch.o) |-> <<sch.o[i][1], OfBlock(sch.o[i][2])>>])

\* C3 as stated: rebuilding a schema from its own extracted defaults gives a schema
\* structurally equal to it, every field's value being its declared default (the
\* empty string for an undefined or null default).
C3_AsStated ==
  (pc = "rebuilt" /\ values = extractDefaultValuesFromSchema(schema))
    => rebuilt = WithDeclaredDefaults(schema)

\* The blocks of r and s have the same keys at every depth, and so have their fields.
RECURSIVE SameKeySets(_, _)
SameKeySets(r, s) ==
  /\ r.t = "object"
  /\ KeysOf(r) = KeysOf(s)
  /\ \A k \in KeysOf(s) :
       LET rb == Get(r, k)
           sb == Get(s, k)
       IN /\ HasOwn(sb, "fields") =>
               /\ Get(rb, "fields").t = "object"
               /\ KeysOf(Get(rb, "fields")) = KeysOf(Get(sb, "fields"))
          /\ HasOwn(sb, "child") => SameKeySets(Get(rb, "child"), Get(sb, "child"))

\* No block of r carries a `fields` or a `child` entry that its block of s lacks.
RECURSIVE NoNewStructure(_, _)
NoNewStructure(r, s) ==
  \A k \in KeysOf(s) :
    LET rb == Get(r, k)
        sb == Get(s, k)
    IN /\ HasOwn(rb, "fields") => HasOwn(sb, "fields")
       /\ HasOwn(rb, "child") => HasOwn(sb, "child")
       /\ HasOwn(sb, "child") => NoNewStructure(Get(rb, "child"), Get(sb, "child"))

\* C4 as stated: for every values tree the rebuilt schema has the block keys and the
\* field keys of the schema at every depth, and a rebuilt block carries a fields or
\* child entry only if the source block carried one.
C4_AsStated ==
  pc = "rebuilt" => SameKeySets(rebuilt, schema) /\ NoNewStructure(rebuilt, schema)

\* C5: rebuilding with the empty values tree raises nothing, sets the value of every
\* non-boolean field at every depth to the empty string, and leaves the label, order
\* and required of every block as they are in the schema.
C5_EmptyTreeGivesEmptyStrings ==
  (pc = "rebuilt" /\ values = EmptyObject) =>
    /\ rebuilt.t = "object"
    /\ \A fp \in FieldPaths(schema) :
         ~IsBooleanField(GetIn(schema, fp)) =>
           /\ HasOwn(GetIn(rebuilt, fp), "value")
           /\ Get(GetIn(rebuilt, fp), "value") = EmptyString
    /\ \A bp \in BlockPaths(schema) :
         \A meta \in {"label", "order", "required"} :
           /\ HasOwn(GetIn(rebuilt, bp), meta) <=> HasOwn(GetIn(schema, bp), meta)
           /\ Get(GetIn(rebuilt, bp), meta) = Get(GetIn(schema, bp), meta)

\* C5 witness: the empty tree was rebuilt against a schema with a nested block whose
\* string field declares a non-empty default, and with a block that has a label.
C5_Witness ==
  /\ pc = "rebuilt"
  /\ values = EmptyObject
  /\ \E fp \in FieldPaths(schema) :
       /\ Len(fp) > 3
       /\ Get(GetIn(schema, fp), "value") = Str(<<"S-123">>)
       /\ Get(GetIn(rebuilt, fp), "value") = EmptyString
  /\ \E bp \in BlockPaths(schema) : Get(GetIn(rebuilt, bp), "label") = Str(<<"Rule">>)

\* C8: rebuilding from the defaults extracted from a rebuilt schema gives that
\* rebuilt schema again.
C8_RebuildIdempotent ==
  pc = "again" => again = rebuilt

\* C8 witness: the tree rebuilt from held an entered value, a null, and lacked an
\* entry, and the second rebuild was taken.
C8_Witness ==
  /\ pc = "again"
  /\ \E fp \in FieldPaths(schema) :
       /\ GetIn(values, fp) = Str(<<"a">>)
       /\ Get(GetIn(again, fp), "value") = Str(<<"a">>)
       /\ Get(GetIn(schema, fp), "value") # Str(<<"a">>)
  /\ \E fp \in FieldPaths(schema) :
       /\ GetIn(values, fp) = Undefined
       /\ Get(GetIn(again, fp), "value") = EmptyString

\* Every entry the values tree holds for a field has the type of the field.
EntriesMatchTypes ==
  \A fp \in FieldPaths(schema) :
    LET v == GetIn(values, fp)
    IN Nullish(v) \/ (IF IsBooleanField(GetIn(schema, fp)) THEN v.t = "boolean" ELSE v.t = "string")

\* C10 as stated: the rebuilt schema keeps the type invariant of the data model, also
\* for a values tree that lacks entries: a boolean field has a boolean value, a string
\* field a string value.
C10_AsStated ==
  (pc = "rebuilt" /\ EntriesMatchTypes) =>
    \A fp \in FieldPaths(schema) :
      LET v == Get(GetIn(rebuilt, fp), "value")
      IN IF IsBooleanField(GetIn(schema, fp)) THEN v.t = "boolean" ELSE v.t = "string"

\* ---------------------------------------------------- claims on the ordering

\* The order attribute of an entry, a missing one counted as 0.
OrderOf(e) == IF HasOwn(e, "order") THEN Get(e, "order").n ELSE 0

\* The entries inserted into the mapping, in the order of insertion; none when the
\* mapping is absent.
Inserted == IF obj.t = "object" THEN obj.o ELSE <<>>

\* The position at which key k was inserted into the mapping.
InsertedAt(k) == CHOOSE i \in 1..Len(Inserted) : Inserted[i][1] = k

\* The result holds every entry of the mapping exactly once.
SortedIsPermutation ==
  /\ Len(sorted) = Len(Inserted)
  /\ \A i \in 1..Len(Inserted) : \E j \in 1..Len(sorted) : sorted[j] = Inserted[i]

SortedAscending ==
  \A i, j \in 1..Len(sorted) : i < j => OrderOf(sorted[i][2]) <= OrderOf(sorted[j][2])

SortedTies(i, j) == i < j /\ OrderOf(sorted[i][2]) = OrderOf(sorted[j][2])

\* C7 as stated: sortEntriesByOrder returns every entry once, ascending by order
\* (missing order = 0), entries of equal order in the order of their insertion into
\* the mapping; an absent mapping gives the empty sequence.
C7_AsStated ==
  pc = "sorted" =>
    /\ obj = Undefined => sorted = <<>>
    /\ SortedIsPermutation
    /\ SortedAscending
    /\ \A i, j \in 1..Len(sorted) :
         SortedTies(i, j) => InsertedAt(sorted[i][1]) < InsertedAt(sorted[j][1])

\* C7 amended: as above, but entries of equal order keep the order in which the
\* mapping enumerates them: keys that are array indices first, by ascending numeric
\* value, then every other key in the order of insertion.
C7_SortedStableByEnumeration ==
  pc = "sorted" =>
    /\ obj = Undefined => sorted = <<>>
    /\ SortedIsPermutation
    /\ SortedAscending
    /\ \A i, j \in 1..Len(sorted) :
         SortedTies(i, j) =>
           LET ki == sorted[i][1]
               kj == sorted[j][1]
           IN CASE IsArrayIndex(ki) /\ IsArrayIndex(kj) -> IndexValue[ki] < IndexValue[kj]
                [] IsArrayIndex(kj) -> FALSE
                [] IsArrayIndex(ki) -> TRUE
                [] OTHER -> InsertedAt(ki) < InsertedAt(kj)

\* C7 witness: a sorted mapping of three entries in which two plain keys tie, the
\* one with a missing order, and a third entry inserted first sorts after them.
C7_Witness ==
  /\ pc = "sorted"
  /\ Len(sorted) = 3
  /\ \E i, j \in 1..3 :
       /\ SortedTies(i, j)
       /\ ~IsArrayIndex(sorted[i][1]) /\ ~IsArrayIndex(sorted[j][1])
       /\ ~HasOwn(sorted[i][2], "order") /\ HasOwn(sorted[j][2], "order")
  /\ sorted[3] = Inserted[1]
  /\ OrderOf(sorted[2][2]) < OrderOf(sorted[3][2])

====
